---- MODULE Spec2Model ----
(***************************************************************************)
(* Model of shutdown-async (src/src/lib.rs): a ShutdownController that     *)
(* owns a broadcast sender (notify_shutdown), an mpsc sender               *)
(* (task_tracker) and the mpsc receiver (task_waiter), and the             *)
(* ShutdownMonitor instances it hands out with subscribe().                *)
(*                                                                         *)
(* The two tokio channels are modelled by the part of their state the      *)
(* library depends on: the number of live sending handles, the number of   *)
(* values sent, and each broadcast receiver's cursor.                      *)
(***************************************************************************)
EXTENDS Naturals, FiniteSets

\* Number of monitor slots (each subscribe() call takes the next free slot).
MaxMonitors == 2

\* Saturation point of the per-monitor count of channel observations.
MaxObserved == 2

\* broadcast::channel::<()>(1) and mpsc::channel::<()>(1)
NotifyCapacity == 1
TrackerCapacity == 1

Monitors == 1..MaxMonitors

VARIABLES
    ctrl,      \* position of the controller: Active, Fired, Draining, Complete, Dropped
    notify,    \* broadcast channel: tx = live senders, tail = values sent so far
    tracker,   \* mpsc channel: tx = live senders, buf = queued values, rx = receiver alive
    mon        \* the monitors, one record per slot

vars == <<ctrl, notify, tracker, mon>>

\* A slot no subscribe() call has filled yet.
NoMonitor ==
    [st |-> "none", shutdown_received |-> FALSE, next |-> 0, pc |-> "idle",
     observed |-> 0, last |-> "none", task |-> "free", step |-> "none",
     late |-> FALSE, after_drop |-> FALSE]

Live == {m \in Monitors : mon[m].st = "live"}
Released == {m \in Monitors : mon[m].st = "released"}
Created == Live \cup Released

Init ==
    /\ ctrl = "Active"
    /\ notify = [tx |-> 1, tail |-> 0]
    /\ tracker = [tx |-> 1, buf |-> 0, rx |-> TRUE]
    /\ mon = [m \in Monitors |-> NoMonitor]

(***************************************************************************)
(* Channel primitives, as the library uses them.                           *)
(***************************************************************************)

\* broadcast::Receiver::recv() polled by monitor m: a value if one is
\* pending for this receiver's cursor, Lagged if the cursor fell behind the
\* capacity, Closed if every sender is gone, Pending otherwise.
\* Faulty variants: the closing is seen by the first observer only; the
\* closing is not seen at all.
BroadcastRecvMissesClose(m) ==
    IF notify.tail - mon[m].next > NotifyCapacity THEN "Lagged"
    ELSE IF mon[m].next < notify.tail THEN "Ok"
    ELSE "Pending"

BroadcastRecvSingleConsumer(m) ==
    IF notify.tail - mon[m].next > NotifyCapacity THEN "Lagged"
    ELSE IF mon[m].next < notify.tail THEN "Ok"
    ELSE IF notify.tx = 0 /\ \A o \in Monitors \ {m} : mon[o].observed = 0
         THEN "Closed"
    ELSE "Pending"

BroadcastRecv(m) ==
    IF notify.tail - mon[m].next > NotifyCapacity THEN "Lagged"
    ELSE IF mon[m].next < notify.tail THEN "Ok"
    ELSE IF notify.tx = 0 THEN "Closed"
    ELSE "Pending"

\* mpsc::Receiver::recv() polled by the controller: Some if a value is
\* queued, None once every sender is dropped, Pending otherwise.
\* Faulty variant: resolves while one sender is left.
MpscRecvOffByOne ==
    IF tracker.buf > 0 THEN "Some"
    ELSE IF tracker.tx <= 1 THEN "None"
    ELSE "Pending"

MpscRecv ==
    IF tracker.buf > 0 THEN "Some"
    ELSE IF tracker.tx = 0 THEN "None"
    ELSE "Pending"

Saturate(n) == IF n < MaxObserved THEN n + 1 ELSE MaxObserved

(***************************************************************************)
(* ShutdownMonitor                                                         *)
(***************************************************************************)

\* ShutdownMonitor::new: the record subscribe() builds. The broadcast
\* receiver starts at the channel's current tail. after_drop records
\* whether some earlier monitor was already dropped at that time.
\* Faulty variant: the flag starts set.
MonitorNewSignaled(kind) ==
    [st |-> "live", shutdown_received |-> TRUE,
     next |-> notify.tail, pc |-> "idle", observed |-> 0, last |-> "none",
     task |-> kind, step |-> IF kind = "test" THEN "check1" ELSE "none",
     late |-> FALSE, after_drop |-> (Released # {})]

MonitorNew(kind) ==
    [st |-> "live", shutdown_received |-> FALSE,
     next |-> notify.tail, pc |-> "idle", observed |-> 0, last |-> "none",
     task |-> kind, step |-> IF kind = "test" THEN "check1" ELSE "none",
     late |-> FALSE, after_drop |-> (Released # {})]

\* Faulty variant: is_shutdown() looks at the channel instead of the flag.
is_shutdownConsultsChannel(m) == mon[m].shutdown_received \/ notify.tx = 0

\* ShutdownMonitor::is_shutdown
is_shutdown(m) == mon[m].shutdown_received

\* The tail of recv(): the channel's recv() resolved (its result is
\* discarded by `let _ =`), so the flag is set and recv() returns.
\* Faulty variants: one flag shared by all monitors; the flag not set.
ObservedSharedFlag(m) ==
    [o \in Monitors |->
        IF o = m
        THEN [mon[o] EXCEPT !.shutdown_received = TRUE, !.pc = "idle",
                            !.observed = Saturate(@), !.last = "recv",
                            !.next = IF BroadcastRecv(m) = "Ok" THEN @ + 1
                                     ELSE IF BroadcastRecv(m) = "Lagged"
                                          THEN notify.tail - NotifyCapacity
                                     ELSE @]
        ELSE IF mon[o].st = "live"
             THEN [mon[o] EXCEPT !.shutdown_received = TRUE]
             ELSE mon[o]]

ObservedFlagNotSet(m) ==
    [mon EXCEPT ![m] = [@ EXCEPT !.pc = "idle", !.observed = Saturate(@),
                                 !.last = "recv"]]

Observed(m) ==
    [mon EXCEPT ![m] =
        [@ EXCEPT !.shutdown_received = TRUE, !.pc = "idle",
                  !.observed = Saturate(@), !.last = "recv",
                  !.next = IF BroadcastRecv(m) = "Ok" THEN @ + 1
                           ELSE IF BroadcastRecv(m) = "Lagged"
                                THEN notify.tail - NotifyCapacity
                           ELSE @]]

\* ShutdownMonitor::recv up to its first suspension point: the early
\* return on the cached flag, otherwise the first poll of the channel.
\* Faulty variants: no early return; no wait for the channel; the early
\* return takes the flag (leaving it false).
recvTakesFlag(m) ==
    IF mon[m].shutdown_received
    THEN [mon EXCEPT ![m] = [@ EXCEPT !.shutdown_received = FALSE,
                                      !.last = "recv_cached"]]
    ELSE IF BroadcastRecv(m) = "Pending"
         THEN [mon EXCEPT ![m] = [@ EXCEPT !.pc = "waiting"]]
         ELSE Observed(m)

recvNoWait(m) ==
    IF mon[m].shutdown_received
    THEN [mon EXCEPT ![m] = [@ EXCEPT !.last = "recv_cached"]]
    ELSE Observed(m)

recvNoEarlyReturn(m) ==
    IF BroadcastRecv(m) = "Pending"
    THEN [mon EXCEPT ![m] = [@ EXCEPT !.pc = "waiting"]]
    ELSE Observed(m)

recv(m) ==
    IF mon[m].shutdown_received
    THEN [mon EXCEPT ![m] = [@ EXCEPT !.last = "recv_cached"]]
    ELSE IF BroadcastRecv(m) = "Pending"
         THEN [mon EXCEPT ![m] = [@ EXCEPT !.pc = "waiting"]]
         ELSE Observed(m)

\* Dropping a monitor drops its fields: the broadcast receiver and the
\* mpsc sender clone. The record keeps the state it was dropped in.
\* Faulty variants: a monitor dropped inside recv() keeps its sender; the
\* drop sends a value on the completion channel when there is room.
DropMonitorSends(m) ==
    /\ mon' = [mon EXCEPT ![m] = [@ EXCEPT !.st = "released"]]
    /\ tracker' = [tracker EXCEPT !.tx = @ - 1,
                                  !.buf = IF @ < TrackerCapacity THEN @ + 1 ELSE @]

DropMonitorLeaksInRecv(m) ==
    /\ mon' = [mon EXCEPT ![m] = [@ EXCEPT !.st = "released"]]
    /\ tracker' = [tracker EXCEPT !.tx = IF mon[m].pc = "waiting" THEN @ ELSE @ - 1]

DropMonitor(m) ==
    /\ mon' = [mon EXCEPT ![m] = [@ EXCEPT !.st = "released"]]
    /\ tracker' = [tracker EXCEPT !.tx = @ - 1]

(***************************************************************************)
(* ShutdownController                                                      *)
(***************************************************************************)

\* The slot the next subscribe() fills.
NextSlot == CHOOSE m \in Monitors : mon[m].st = "none" /\
                \A o \in Monitors : mon[o].st = "none" => m <= o

\* ShutdownController::subscribe(&self): notify_shutdown.subscribe() and
\* task_tracker.clone() bound into a new monitor. The controller must still
\* exist (not moved into shutdown(), not dropped).
\* Faulty variants: subscribe() usable after shutdown() was called; the
\* sender is not cloned.
subscribeLate(kind) ==
    /\ ctrl \in {"Active", "Fired", "Draining"}
    /\ \E m \in Monitors : mon[m].st = "none"
    /\ mon' = [mon EXCEPT ![NextSlot] = MonitorNew(kind)]
    /\ tracker' = [tracker EXCEPT !.tx = @ + 1]
    /\ UNCHANGED <<ctrl, notify>>

subscribeNoClone(kind) ==
    /\ ctrl = "Active"
    /\ \E m \in Monitors : mon[m].st = "none"
    /\ mon' = [mon EXCEPT ![NextSlot] = MonitorNew(kind)]
    /\ UNCHANGED <<ctrl, notify, tracker>>

subscribe(kind) ==
    /\ ctrl = "Active"
    /\ \E m \in Monitors : mon[m].st = "none"
    /\ mon' = [mon EXCEPT ![NextSlot] = MonitorNew(kind)]
    /\ tracker' = [tracker EXCEPT !.tx = @ + 1]
    /\ UNCHANGED <<ctrl, notify>>

\* shutdown(), line 123: drop(self.notify_shutdown).
\* Faulty variant: values are sent on the channel before the sender goes.
shutdown_notify_sends ==
    /\ ctrl = "Active"
    /\ ctrl' = "Fired"
    /\ notify' = [notify EXCEPT !.tx = @ - 1, !.tail = @ + 2]
    /\ UNCHANGED <<tracker, mon>>

shutdown_notify ==
    /\ ctrl = "Active"
    /\ ctrl' = "Fired"
    /\ notify' = [notify EXCEPT !.tx = @ - 1]
    /\ UNCHANGED <<tracker, mon>>

\* shutdown(), line 127: drop(self.task_tracker).
\* Faulty variant: the controller keeps its own sender while it waits.
shutdown_release_kept ==
    /\ ctrl = "Fired"
    /\ ctrl' = "Draining"
    /\ UNCHANGED <<notify, tracker, mon>>

shutdown_release ==
    /\ ctrl = "Fired"
    /\ ctrl' = "Draining"
    /\ tracker' = [tracker EXCEPT !.tx = @ - 1]
    /\ UNCHANGED <<notify, mon>>

\* shutdown(), line 130: self.task_waiter.recv().await resolves, its result
\* is discarded, and shutdown() returns, dropping the receiver.
shutdown_wait ==
    /\ ctrl = "Draining"
    /\ MpscRecv # "Pending"
    /\ ctrl' = "Complete"
    /\ tracker' = [tracker EXCEPT !.rx = FALSE,
                                  !.buf = IF MpscRecv = "Some" THEN @ - 1 ELSE @]
    /\ UNCHANGED <<notify, mon>>

\* The controller goes out of scope without shutdown(): its three fields
\* are dropped.
\* Faulty variant: the signal sender outlives the controller.
drop_controllerKeepsSender ==
    /\ ctrl = "Active"
    /\ ctrl' = "Dropped"
    /\ tracker' = [tracker EXCEPT !.tx = @ - 1, !.rx = FALSE]
    /\ UNCHANGED <<notify, mon>>

drop_controller ==
    /\ ctrl = "Active"
    /\ ctrl' = "Dropped"
    /\ notify' = [notify EXCEPT !.tx = @ - 1]
    /\ tracker' = [tracker EXCEPT !.tx = @ - 1, !.rx = FALSE]
    /\ UNCHANGED mon

(***************************************************************************)
(* Tasks holding a monitor.  A "free" task may call any operation at any   *)
(* time; a "test" task runs the body of the tests in src/test/test.rs.     *)
(***************************************************************************)

FreeIdle(m) == mon[m].st = "live" /\ mon[m].task = "free" /\ mon[m].pc = "idle"

\* A task reads is_shutdown().
call_is_shutdown(m) ==
    /\ FreeIdle(m)
    /\ mon' = [mon EXCEPT ![m] =
                 [@ EXCEPT !.last = IF is_shutdown(m) THEN "true" ELSE "false"]]
    /\ UNCHANGED <<ctrl, notify, tracker>>

\* A task calls recv().await: runs to the first suspension point.
call_recv(m) ==
    /\ FreeIdle(m)
    /\ mon' = recv(m)
    /\ UNCHANGED <<ctrl, notify, tracker>>

\* A task suspended in recv() is woken because the channel's recv() became
\* ready; recv() sets the flag and returns.
wake_recv(m) ==
    /\ mon[m].st = "live"
    /\ mon[m].pc = "waiting"
    /\ BroadcastRecv(m) # "Pending"
    /\ mon' = Observed(m)
    /\ UNCHANGED <<ctrl, notify, tracker>>

\* The recv() future is dropped while suspended (another select! branch
\* won); the monitor stays with the task.
\* Faulty variant: the flag is already set when recv() is abandoned.
cancel_recvMarksReceived(m) ==
    /\ mon[m].st = "live"
    /\ mon[m].task = "free"
    /\ mon[m].pc = "waiting"
    /\ mon' = [mon EXCEPT ![m] = [@ EXCEPT !.pc = "idle", !.last = "cancelled",
                                           !.shutdown_received = TRUE]]
    /\ UNCHANGED <<ctrl, notify, tracker>>

cancel_recv(m) ==
    /\ mon[m].st = "live"
    /\ mon[m].task = "free"
    /\ mon[m].pc = "waiting"
    /\ mon' = [mon EXCEPT ![m] = [@ EXCEPT !.pc = "idle", !.last = "cancelled"]]
    /\ UNCHANGED <<ctrl, notify, tracker>>

\* The task ends (return, cancellation while suspended, unwinding): the
\* monitor is dropped.
drop_monitor(m) ==
    /\ mon[m].st = "live"
    /\ mon[m].task = "free"
    /\ DropMonitor(m)
    /\ UNCHANGED <<ctrl, notify>>

\* test.rs line 34: assert!(!monitor.is_shutdown()).  A failed assertion
\* panics; unwinding drops the monitor.
test_check1(m) ==
    /\ mon[m].st = "live" /\ mon[m].task = "test" /\ mon[m].step = "check1"
    /\ IF ~is_shutdown(m)
       THEN /\ mon' = [mon EXCEPT ![m] = [@ EXCEPT !.step = "recv", !.last = "false",
                                                   !.late = (notify.tx = 0)]]
            /\ UNCHANGED tracker
       ELSE /\ mon' = [mon EXCEPT ![m] = [@ EXCEPT !.st = "released",
                                                   !.step = "panicked", !.last = "true"]]
            /\ tracker' = [tracker EXCEPT !.tx = @ - 1]
    /\ UNCHANGED <<ctrl, notify>>

\* test.rs lines 35 and 50: monitor.recv().await.
test_recv(m) ==
    /\ mon[m].st = "live" /\ mon[m].task = "test" /\ mon[m].step = "recv"
    /\ mon' = [recv(m) EXCEPT ![m] = [@ EXCEPT !.step = "check2"]]
    /\ UNCHANGED <<ctrl, notify, tracker>>

\* test.rs line 51: assert!(monitor.is_shutdown()), then the task body ends
\* and the monitor is dropped.
test_check2(m) ==
    /\ mon[m].st = "live" /\ mon[m].task = "test" /\ mon[m].step = "check2"
    /\ mon[m].pc = "idle"
    /\ mon' = [mon EXCEPT ![m] =
                 [@ EXCEPT !.st = "released",
                           !.step = IF is_shutdown(m) THEN "done" ELSE "panicked",
                           !.last = IF is_shutdown(m) THEN "true" ELSE "false"]]
    /\ tracker' = [tracker EXCEPT !.tx = @ - 1]
    /\ UNCHANGED <<ctrl, notify>>

Next ==
    \/ \E kind \in {"free", "test"} : subscribe(kind)
    \/ shutdown_notify
    \/ shutdown_release
    \/ shutdown_wait
    \/ drop_controller
    \/ \E m \in Monitors : call_is_shutdown(m)
    \/ \E m \in Monitors : call_recv(m)
    \/ \E m \in Monitors : wake_recv(m)
    \/ \E m \in Monitors : cancel_recv(m)
    \/ \E m \in Monitors : drop_monitor(m)
    \/ \E m \in Monitors : test_check1(m)
    \/ \E m \in Monitors : test_recv(m)
    \/ \E m \in Monitors : test_check2(m)

Spec == Init /\ [][Next]_vars

\* The executor keeps polling a started shutdown() future and every spawned
\* task: the steps of shutdown() after its first, the wake-up of a suspended
\* recv(), and the steps of the test tasks are weakly fair.  Whether a free
\* task calls an operation or ends, and whether shutdown() is called at all,
\* is up to the application.
Fairness ==
    /\ WF_vars(shutdown_release)
    /\ WF_vars(shutdown_wait)
    /\ \A m \in Monitors :
        /\ WF_vars(wake_recv(m))
        /\ WF_vars(test_check1(m))
        /\ WF_vars(test_recv(m))
        /\ WF_vars(test_check2(m))

FairSpec == Spec /\ Fairness

TypeOK ==
    /\ ctrl \in {"Active", "Fired", "Draining", "Complete", "Dropped"}
    /\ notify.tx \in 0..1
    /\ tracker.tx \in 0..(MaxMonitors + 1)
    /\ \A m \in Monitors : mon[m].st \in {"none", "live", "released"}

(***************************************************************************)
(* Properties                                                              *)
(***************************************************************************)

\* shutdown() has executed drop(self.notify_shutdown).
ShutdownFired == ctrl \in {"Fired", "Draining", "Complete"}

\* shutdown() has been started and has not returned.
ShutdownRunning == ctrl \in {"Fired", "Draining"}

Waiting(m) == mon[m].st = "live" /\ mon[m].pc = "waiting"

\* The recv() monitor m was suspended in is over: it returned with the flag
\* set, or its caller abandoned it (select! lost, or the monitor dropped).
RecvOver(m) ==
    \/ mon[m].st = "released"
    \/ mon[m].pc = "idle" /\ mon[m].shutdown_received
    \/ mon[m].pc = "idle" /\ mon[m].last = "cancelled"

\* C1: Liveness of shutdown(). If from some point on no monitor is alive
\* (every monitor created was destroyed, with or without a recv()), a
\* started shutdown() eventually returns; and while no monitor is alive the
\* next step of a started shutdown() is enabled by itself, so with N = 0 it
\* needs no step of any other task.
C1_ShutdownLiveness ==
    /\ [](Live = {} /\ ctrl = "Fired" => ENABLED shutdown_release)
    /\ [](Live = {} /\ ctrl = "Draining" => ENABLED shutdown_wait)
    /\ (<>[](Live = {})) => [](ShutdownRunning => <>(ctrl = "Complete"))

\* shutdown() returned although a monitor was dropped without ever calling
\* an operation, and another one was dropped too.
C1_Witness ==
    /\ ctrl = "Complete"
    /\ \E m \in Released : mon[m].last = "none" /\ mon[m].observed = 0
    /\ Cardinality(Released) >= 2

\* C2: Barrier safety. In every state where the controller is Complete
\* (shutdown() has returned) no monitor is alive.
C2_BarrierSafety == ctrl = "Complete" => Live = {}

\* shutdown() returned after two monitors were created and dropped.
C2_Witness == ctrl = "Complete" /\ Cardinality(Released) >= 2

\* C3: Signal delivery. Once shutdown() has dropped the signal sender, a
\* recv() a monitor is suspended in eventually ends (it returns, unless its
\* caller abandons it first), a recv() called later returns without
\* suspending, and whenever a recv() returns the monitor's flag is set.
C3_SignalDelivery ==
    /\ \A m \in Monitors : [](ShutdownFired /\ Waiting(m) => <>RecvOver(m))
    /\ [][\A m \in Monitors :
            ShutdownFired /\ (call_recv(m) \/ test_recv(m))
                => mon'[m].pc = "idle" /\ mon'[m].shutdown_received]_vars
    /\ [][\A m \in Monitors :
            (call_recv(m) \/ wake_recv(m) \/ test_recv(m)) /\ mon'[m].pc = "idle"
                => mon'[m].shutdown_received]_vars

\* After shutdown() fired, a monitor's recv() went through the channel and
\* returned, and is_shutdown() then returned true.
C3_Witness ==
    /\ ShutdownFired
    /\ \E m \in Live : /\ mon[m].observed = 1
                       /\ mon[m].shutdown_received
                       /\ mon[m].last = "true"

\* C4 as stated: while shutdown() has not begun its signal-destruction step
\* no monitor has observed the signal.
C4_BeforeShutdown ==
    ~ShutdownFired =>
        \A m \in Monitors : ~mon[m].shutdown_received /\ mon[m].observed = 0

\* C4, amended: while the controller's signal sender exists (it is destroyed
\* by shutdown()'s first step, or by dropping the controller without
\* shutdown()) no monitor has observed the signal.
C4_BeforeSenderDropped ==
    notify.tx > 0 =>
        \A m \in Monitors : /\ ~mon[m].shutdown_received
                            /\ mon[m].observed = 0
                            /\ mon[m].last \notin {"recv", "recv_cached", "true"}

\* The sender still exists and a monitor is suspended in recv() while
\* another one has read is_shutdown() as false.
C4_Witness ==
    /\ notify.tx > 0
    /\ \E a, b \in Live : a # b /\ mon[a].pc = "waiting" /\ mon[b].last = "false"

\* C5: Pre-shutdown state. Every monitor subscribe() returns has its flag
\* unset, so is_shutdown() on it is false.
C5_FreshMonitor ==
    [][\A m \in Monitors :
          mon[m].st = "none" /\ mon'[m].st = "live"
              => ~is_shutdown(m)' /\ mon'[m].observed = 0]_vars

\* A monitor subscribed after an earlier one was dropped read is_shutdown()
\* as false.
C5_Witness ==
    \E m \in Live : mon[m].after_drop /\ mon[m].last = "false"

TestTask(m) == mon[m].st = "live" /\ mon[m].task = "test"

\* C6: End-to-end under every interleaving. A task that checks
\* is_shutdown() (false), awaits recv(), checks is_shutdown() (true) and
\* ends never fails a check, whatever the order of its steps and those of
\* shutdown(); once shutdown() has fired the task runs to its end; and when
\* such tasks hold all the live monitors, shutdown() returns.
C6_EndToEnd ==
    /\ [](\A m \in Monitors : mon[m].step # "panicked")
    /\ \A m \in Monitors : [](ShutdownFired /\ TestTask(m) => <>(mon[m].step = "done"))
    /\ [](ShutdownRunning /\ (\A m \in Live : mon[m].task = "test")
            => <>(ctrl = "Complete"))

\* shutdown() returned and a task passed both checks although the signal
\* had fired before its first is_shutdown() check.
C6_Witness ==
    /\ ctrl = "Complete"
    /\ \E m \in Released : mon[m].step = "done" /\ mon[m].late

\* C7: Release on every exit path. Every step that destroys a monitor
\* lowers the number of completion senders by exactly one, whatever state
\* the monitor is in (never used, suspended in recv(), signal observed); so
\* whenever shutdown() waits and no monitor is alive, the wait is ready.
C7_ReleaseOnDrop ==
    /\ [][\A m \in Monitors :
            mon[m].st = "live" /\ mon'[m].st = "released"
                => tracker'.tx = tracker.tx - 1]_vars
    /\ [](\A m \in Live : mon[m].task = "free" => ENABLED drop_monitor(m))
    /\ [](ctrl = "Draining" /\ Live = {} => MpscRecv # "Pending")

\* shutdown() returned after one monitor was dropped while suspended in
\* recv() and another after it had observed the signal.
C7_Witness ==
    /\ ctrl = "Complete"
    /\ \E a, b \in Released :
        /\ mon[a].pc = "waiting" /\ ~mon[a].shutdown_received
        /\ mon[b].shutdown_received /\ mon[b].observed = 1

\* C8: Fan-out without interference. Once the signal sender is gone, the
\* channel is ready for every live monitor that has not observed it yet,
\* whatever the other monitors did; a monitor observing it leaves the
\* channel's answer to every other monitor unchanged; no monitor observes
\* it twice; and every suspended recv() ends.
C8_FanOut ==
    /\ [](notify.tx = 0 =>
            \A m \in Live : ~mon[m].shutdown_received => BroadcastRecv(m) = "Closed")
    /\ [](\A m \in Monitors : mon[m].observed <= 1)
    /\ [][\A a, b \in Monitors :
            a # b /\ mon'[a].observed # mon[a].observed
                => BroadcastRecv(b)' = BroadcastRecv(b) /\ mon'[b] = mon[b]]_vars
    /\ \A m \in Monitors : [](notify.tx = 0 /\ Waiting(m) => <>RecvOver(m))

\* One monitor has observed the signal through the channel and another one,
\* still suspended in recv(), has its delivery ready.
C8_Witness ==
    \E a, b \in Live :
        /\ a # b
        /\ mon[a].observed = 1 /\ mon[a].shutdown_received
        /\ mon[b].pc = "waiting" /\ BroadcastRecv(b) = "Closed"

\* C9: Idempotent observation. A recv() called on a monitor whose flag is
\* set returns at once: it does not suspend, does not go to the channel
\* (no new observation, cursor and channel untouched) and leaves the flag
\* set.
C9_IdempotentRecv ==
    [][\A m \in Monitors :
          mon[m].shutdown_received /\ call_recv(m)
              => /\ mon'[m] = [mon[m] EXCEPT !.last = "recv_cached"]
                 /\ notify' = notify
                 /\ tracker' = tracker]_vars

\* A later recv() returned through the early return, after the first one
\* had observed the signal once.
C9_Witness ==
    \E m \in Live : /\ mon[m].last = "recv_cached"
                    /\ mon[m].observed = 1
                    /\ mon[m].shutdown_received

\* C10: Independence. A step in which monitor A's flag becomes true changes
\* nothing of any other monitor B, and B's flag becomes true only in a step
\* of B's own recv() through the channel.
C10_Independence ==
    /\ [][\A a, b \in Monitors :
            a # b /\ ~mon[a].shutdown_received /\ mon'[a].shutdown_received
                => mon'[b] = mon[b]]_vars
    /\ [][\A b \in Monitors :
            mon[b].st = "live" /\ mon'[b].shutdown_received # mon[b].shutdown_received
                => /\ mon'[b].shutdown_received
                   /\ mon'[b].observed = mon[b].observed + 1
                   /\ mon'[b].last = "recv"]_vars

\* After the signal fired, A's recv() has returned and B then read
\* is_shutdown() as false.
C10_Witness ==
    \E a, b \in Live :
        /\ a # b
        /\ notify.tx = 0
        /\ mon[a].shutdown_received /\ mon[a].last = "recv"
        /\ ~mon[b].shutdown_received /\ mon[b].last = "false"

\* C11: No error and no lag. At most one value is ever placed on the signal
\* channel (its capacity), so no receiver's recv() can answer Lagged; and
\* recv() on a monitor has no error outcome: after any step of it the
\* monitor is either suspended with the flag unset or idle with the flag
\* set.
C11_NoLag ==
    /\ [](notify.tail <= NotifyCapacity)
    /\ [](\A m \in Live : BroadcastRecv(m) \in {"Pending", "Closed", "Ok"})
    /\ [][\A m \in Monitors :
            call_recv(m) \/ wake_recv(m) \/ test_recv(m)
                => \/ mon'[m].pc = "waiting" /\ ~mon'[m].shutdown_received
                   \/ mon'[m].pc = "idle" /\ mon'[m].shutdown_received]_vars

\* The sender is gone, nothing was ever sent, one monitor's recv() returned
\* on the closed channel and another one's is still to be woken.
C11_Witness ==
    /\ notify.tx = 0 /\ notify.tail = 0
    /\ \E a, b \in Live : /\ mon[a].last = "recv" /\ mon[a].observed = 1
                          /\ mon[b].pc = "waiting" /\ mon[b].next = notify.tail

\* The controller's state in the terms of its state machine: between the
\* two drops of shutdown() it is already Draining.
CtrlState == IF ctrl \in {"Fired", "Draining"} THEN "Draining" ELSE ctrl

\* C12: Controller state machine. While it exists the controller moves only
\* Active -> Draining -> Complete (an Active controller may also cease to
\* exist, after which nothing happens to it); monitors are created only in
\* Active, so the set of monitors ever created is fixed once shutdown() was
\* invoked; shutdown() starts only from Active, hence at most once; Complete
\* is terminal.
C12_StateMachine ==
    /\ [][CtrlState' # CtrlState =>
            \/ CtrlState = "Active" /\ CtrlState' \in {"Draining", "Dropped"}
            \/ CtrlState = "Draining" /\ CtrlState' = "Complete"]_vars
    /\ [][Created' # Created => CtrlState = "Active" /\ CtrlState' = "Active"]_vars
    /\ [][CtrlState # "Active" => Created' = Created]_vars
    /\ [][notify'.tx # notify.tx => CtrlState = "Active" /\ notify'.tx = 0]_vars
    /\ [](CtrlState # "Active" => ~ENABLED shutdown_notify)
    /\ [](\A kind \in {"free", "test"} : CtrlState # "Active" => ~ENABLED subscribe(kind))
    /\ [][ctrl = "Complete" => ctrl' = "Complete" /\ notify' = notify
                                 /\ tracker' = tracker]_vars

\* shutdown() is waiting with one monitor alive while a monitor slot is
\* still unused: no further monitor can be created.
C12_Witness ==
    /\ ctrl = "Draining"
    /\ Live # {}
    /\ \E m \in Monitors : mon[m].st = "none"

\* C13: Self-hold released before waiting. Whenever shutdown() is suspended
\* on the completion receiver, the senders left are exactly those of the
\* live monitors, none of them the controller's; with no live monitor the
\* wait is ready.
C13_SelfHoldReleased ==
    /\ ctrl = "Draining" => tracker.tx = Cardinality(Live)
    /\ ctrl = "Draining" /\ Live = {} => MpscRecv = "None"

\* shutdown() is suspended on the barrier with two monitors alive and two
\* senders left.
C13_Witness ==
    ctrl = "Draining" /\ Cardinality(Live) = 2 /\ tracker.tx = 2

\* C14: Monotonic flag. A slot's flag is false until a monitor is created
\* in it, a new monitor's flag is false, and no step of any operation turns
\* a flag that is true back to false; so it changes at most once, from
\* false to true.
C14_MonotonicFlag ==
    /\ [](\A m \in Monitors : mon[m].st = "none" => ~mon[m].shutdown_received)
    /\ [][\A m \in Monitors :
            mon[m].st = "none" /\ mon'[m].st # "none" => ~mon'[m].shutdown_received]_vars
    /\ [][\A m \in Monitors :
            mon[m].shutdown_received => mon'[m].shutdown_received]_vars

\* shutdown() returned; a monitor's flag was set, survived a later recv()
\* and the monitor's drop.
C14_Witness ==
    /\ ctrl = "Complete"
    /\ \E m \in Released : mon[m].shutdown_received /\ mon[m].last = "recv_cached"

\* C15: is_shutdown() is a pure read of the cached flag. A call returns the
\* flag as it is, leaves the monitor idle and changes nothing else (only
\* the record of the value returned); the flag is true exactly when the
\* monitor's own recv() has completed through the channel, so the call
\* returns false for a monitor that has not, even after the signal fired.
C15_PureRead ==
    /\ [][\A m \in Monitors :
            call_is_shutdown(m)
                => /\ mon' = [mon EXCEPT ![m] =
                                [@ EXCEPT !.last = IF mon[m].shutdown_received
                                                   THEN "true" ELSE "false"]]
                   /\ ctrl' = ctrl /\ notify' = notify /\ tracker' = tracker]_vars
    /\ [](\A m \in Monitors : FreeIdle(m) => ENABLED call_is_shutdown(m))
    /\ [](\A m \in Created : mon[m].shutdown_received <=> mon[m].observed >= 1)

\* shutdown() is waiting, the signal has fired, and a monitor that never
\* completed a recv() read is_shutdown() as false.
C15_Witness ==
    /\ ctrl = "Draining"
    /\ \E m \in Live : /\ mon[m].last = "false" /\ mon[m].observed = 0
                       /\ mon[m].task = "free" /\ BroadcastRecv(m) = "Closed"

\* C16: Effect of subscribe(). A step that creates a monitor creates
\* exactly one, with its flag false and idle, raises the number of
\* completion senders by exactly one, and leaves every other monitor, the
\* signal channel and the controller unchanged; while the controller is
\* Active and a slot is free, subscribe() is enabled (it never waits).
C16_SubscribeEffect ==
    /\ [][Created' # Created =>
            /\ \E n \in Monitors \ Created :
                /\ Created' = Created \cup {n}
                /\ mon'[n].st = "live"
                /\ ~mon'[n].shutdown_received
                /\ mon'[n].pc = "idle"
                /\ \A o \in Monitors \ {n} : mon'[o] = mon[o]
            /\ tracker'.tx = tracker.tx + 1
            /\ tracker'.buf = tracker.buf
            /\ notify' = notify
            /\ ctrl' = ctrl]_vars
    /\ [](ctrl = "Active" /\ Created # Monitors =>
            \A kind \in {"free", "test"} : ENABLED subscribe(kind))

\* A monitor was subscribed after an earlier one was dropped, while another
\* use of the controller is still possible: two senders are outstanding.
C16_Witness ==
    /\ ctrl = "Active"
    /\ tracker.tx = 2
    /\ \E m \in Live : mon[m].after_drop /\ mon[m].last = "none"

\* C17: No payload on the completion channel. The channel never holds a
\* value, and the step in which shutdown() stops waiting is taken only with
\* no sender left: the wait ends by the closing of the channel, never by a
\* value.
C17_NoPayload ==
    /\ [](tracker.buf = 0)
    /\ [](ENABLED shutdown_wait => tracker.tx = 0 /\ MpscRecv = "None")
    /\ [][ctrl = "Draining" /\ ctrl' = "Complete"
            => tracker.tx = 0 /\ tracker'.buf = 0 /\ MpscRecv = "None"]_vars

\* shutdown() returned with the channel closed and empty after a monitor
\* that had observed the signal was dropped.
C17_Witness ==
    /\ ctrl = "Complete"
    /\ tracker.tx = 0 /\ tracker.buf = 0 /\ ~tracker.rx
    /\ \E m \in Released : mon[m].observed = 1

\* The controller still holds its own completion sender (task_tracker).
CtrlHoldsTracker == ctrl \in {"Active", "Fired"}

\* C18: Handle-count invariant. The number of outstanding completion
\* senders is the number of live monitors, plus one while the controller
\* holds its own sender; dropped monitors are not counted.
C18_HandleCount ==
    tracker.tx = Cardinality(Live) + (IF CtrlHoldsTracker THEN 1 ELSE 0)

\* shutdown() has dropped the signal sender but not yet its completion
\* sender; one monitor is alive, one was dropped: two senders.
C18_Witness ==
    /\ ctrl = "Fired"
    /\ Cardinality(Live) = 1 /\ Cardinality(Released) = 1
    /\ tracker.tx = 2

\* C19: Cancelled recv() leaves the monitor unsignaled. A step that
\* abandons a suspended recv() leaves the flag false, the monitor alive and
\* subscribed (receiver cursor and sender count untouched); for a monitor
\* whose last recv() was abandoned the channel answers Closed once the
\* sender is gone, and a recv() called then returns and sets the flag.
C19_CancelledRecv ==
    /\ [][\A m \in Monitors :
            cancel_recv(m)
                => /\ ~mon'[m].shutdown_received
                   /\ mon'[m].st = "live"
                   /\ mon'[m].next = mon[m].next
                   /\ mon'[m].observed = mon[m].observed
                   /\ tracker' = tracker /\ notify' = notify]_vars
    /\ [](\A m \in Live :
            mon[m].last = "cancelled" =>
                /\ ~mon[m].shutdown_received
                /\ (notify.tx = 0 => BroadcastRecv(m) = "Closed"))
    /\ [][\A m \in Monitors :
            mon[m].last = "cancelled" /\ notify.tx = 0
            /\ (call_recv(m) \/ wake_recv(m))
                => /\ mon'[m].shutdown_received
                   /\ mon'[m].pc = "idle"
                   /\ mon'[m].last = "recv"]_vars

\* A monitor whose recv() was abandoned is suspended in a later recv() and
\* the signal has fired: its delivery is ready.
C19_Witness ==
    \E m \in Live :
        /\ mon[m].last = "cancelled" /\ mon[m].pc = "waiting"
        /\ notify.tx = 0 /\ BroadcastRecv(m) = "Closed"

\* C20: Controller destroyed without shutdown(). Once the controller was
\* dropped while Active: it stays dropped (shutdown() never runs), the
\* signal sender is gone and the completion receiver too; for every live
\* monitor that has not observed it the channel answers Closed, a recv()
\* called then returns with the flag set, and a suspended recv() ends.
C20_DroppedController ==
    /\ [](ctrl = "Dropped" =>
            /\ notify.tx = 0
            /\ ~tracker.rx
            /\ \A m \in Live : ~mon[m].shutdown_received => BroadcastRecv(m) = "Closed")
    /\ [][ctrl = "Dropped" => ctrl' = "Dropped"]_vars
    /\ [][ctrl' = "Dropped" /\ ctrl # "Dropped" => ctrl = "Active"]_vars
    /\ [][\A m \in Monitors :
            ctrl = "Dropped" /\ (call_recv(m) \/ wake_recv(m) \/ test_recv(m))
                => mon'[m].pc = "idle" /\ mon'[m].shutdown_received]_vars
    /\ \A m \in Monitors : [](ctrl = "Dropped" /\ Waiting(m) => <>RecvOver(m))

\* The controller was dropped without shutdown(), and a monitor's recv()
\* returned and its is_shutdown() read true.
C20_Witness ==
    /\ ctrl = "Dropped"
    /\ \E m \in Live : /\ mon[m].shutdown_received /\ mon[m].observed = 1
                       /\ mon[m].last = "true"

====
